---- MODULE Spec2Model ----
(***************************************************************************)
(* A model of package huprt (src/huprt.go, src/errors.go): the restart     *)
(* handshake of Hupd.Restart, the command built by restartCmd, the         *)
(* replacement's Hupd.Start, and the SIGTERM traffic between them.         *)
(*                                                                         *)
(* One old process runs Restart (possibly several times, one after the     *)
(* other); each successful cmd.Start() spawns one replacement, which later *)
(* calls Start(fromRestart).  SIGTERM may also reach the old process from  *)
(* other senders.  Go slices are modelled as 1-based sequences, so Go's    *)
(* args[k] is Args[k+1] here.                                              *)
(***************************************************************************)
EXTENDS Integers, Sequences, FiniteSets, TLC

\* ---------------------------------------------------------------- bounds
MaxUserArgs == 1     \* os.Args holds the binary and at most this many arguments
MaxTimeout == 1      \* Hupd.Timeout ranges over -1..MaxTimeout
MaxCalls == 2        \* Restart is invoked at most this many times
MaxStray == 1        \* SIGTERMs sent to the old process by other senders
MaxCode == 5         \* largest Error.Code handed to Error()
MaxHup == 2          \* SIGHUPs delivered to one NotifyRestart's subscription

\* ------------------------------------------------------ errors.go: codes
ErrTimeout == 0
ErrNewProcess == 1
ErrKillProcess == 2
ErrRestart == 3
ErrNoProcess == 4

\* A returned error: <<>> is nil, <<code, inner>> is &Error{code, inner};
\* the inner error is "nil" or the text of the cause.
NoErr == <<>>
Error(code, inner) == <<code, inner>>

\* ------------------------------------------------------- input alphabets
BinPath == "prog"
ArgStrings == {"-restart", "-r"}
RestartArgs == {"", "-r"}
Timeouts == -1 .. MaxTimeout
BeginErrors == {"nil", "EBUSY"}
StartErrors == {"nil", "ENOENT"}
KillErrors == {"nil", "EPERM"}

SeqsUpTo(S, n) == UNION {[1..k -> S] : k \in 0..n}
ArgVectors == {<<BinPath>> \o u : u \in SeqsUpTo(ArgStrings, MaxUserArgs)}

VARIABLES
  osArgs,       \* os.Args of the old process
  hasProcess,   \* h.Process != nil
  RestartArg,   \* h.RestartArg
  Timeout,      \* h.Timeout
  pc,           \* position of the goroutine running Restart
  cmd,          \* the exec.Cmd of the running invocation
  built,        \* that Cmd as restartCmd returned it
  err,          \* the value returned by the last Restart (when pc = "done")
  subscribed,   \* signal.Notify(sig, SIGTERM) is in force
  sigbuf,       \* number of signals buffered in sig (capacity 1)
  timerArmed,   \* timeout is a time.After channel (not nil)
  timerFired,   \* the timer has expired: the timeout channel is ready
  chosen,       \* the case select took: "none", "sig" or "timeout"
  calls,        \* number of Restart invocations started
  killCount,    \* Kill() calls made by the running invocation
  killed,       \* Kill() has been called: the old process is exiting
  beginRes,     \* BeginRestart's result in this invocation, or "notcalled"
  spawnRes,     \* cmd.Start's result in this invocation, or "notcalled"
  subsMade,     \* signal.Notify calls made by this invocation
  termSeen,     \* SIGTERMs delivered to this invocation's subscription
  termAfterSpawn, \* one of them was delivered after cmd.Start succeeded
  termInTime,   \* one of them was delivered before the timer expired
  child,        \* child[i]: the replacement spawned by invocation i
  stray,        \* SIGTERMs sent so far by other senders
  startRes,     \* startRes[i]: the Start calls replacement i has made
  beginCalls,   \* BeginRestart calls made by this invocation
  spawnCalls,   \* cmd.Start calls made by this invocation
  started,      \* the Cmd the replacement was just started from (kept for one step)
  npc,          \* position of the goroutine running NotifyRestart
  hupSub,       \* signal.Notify(hup, SIGHUP) is in force
  hupbuf,       \* number of signals buffered in hup (capacity 1)
  hupSeen,      \* SIGHUPs delivered to this NotifyRestart's subscription
  listenCalls,  \* Restart calls made by this NotifyRestart
  nerr,         \* the value returned by the last NotifyRestart
  errIn,        \* an Error value handed to Error()
  rendered      \* the string Error() returned for it, or "unset"

vars == <<osArgs, hasProcess, RestartArg, Timeout, pc, cmd, built, err, subscribed,
          sigbuf, timerArmed, timerFired, chosen, calls, killCount, killed,
          beginRes, spawnRes, subsMade, termSeen, termAfterSpawn, termInTime,
          child, stray, startRes, beginCalls, spawnCalls, started, npc, hupSub,
          hupbuf, hupSeen, listenCalls, nerr, errIn, rendered>>

spawning == <<beginCalls, spawnCalls, started>>
listener == <<npc, hupSub, hupbuf, hupSeen, listenCalls, nerr>>
render == <<errIn, rendered>>
config == <<osArgs, hasProcess, RestartArg, Timeout>>
terms == <<termSeen, termAfterSpawn, termInTime>>

NoCmd == [Path |-> "", Args |-> <<>>, Stdout |-> "nil", Stderr |-> "nil", Extra |-> 0]

\* ------------------------------------------------------------ restartCmd
\* make([]string, n): n empty strings.
MakeStrings(n) == [i \in 1..n |-> ""]

\* copy(dst[off:], src[from:]) with 0-based off and from, as Go's copy:
\* min(len(dst)-off, len(src)-from) elements are copied.
CopyInto(dst, off, src, from) ==
  [i \in 1..Len(dst) |->
     IF i > off /\ (i - off) + from <= Len(src) THEN src[(i - off) + from] ELSE dst[i]]

restartCmd(hupArg, argv) ==
  LET binpath == argv[1]
      made == MakeStrings(Len(argv) + 1)
      copied == CopyInto(made, 2, argv, 1)
      marked == IF copied[2] = hupArg THEN Tail(copied)
                                      ELSE [copied EXCEPT ![2] = hupArg]
      args == IF Len(argv) > 1 THEN [marked EXCEPT ![1] = binpath]
                               ELSE <<binpath, hupArg>>
  IN [Path |-> binpath, Args |-> args,
      Stdout |-> "os.Stdout", Stderr |-> "os.Stderr", Extra |-> 0]

\* Mutant of EffectiveArg: the default marker is not applied.
EffectiveArgNoDefault(restartArg) == restartArg

\* arg := h.RestartArg; if len(arg) == 0 { arg = "-restart" }
EffectiveArg(restartArg) == IF restartArg = "" THEN "-restart" ELSE restartArg


\* Mutant of Start: fromRestart is not tested.
StartIgnoresFlag(fromRestart, ppid, killErr) ==
  IF killErr # "nil" THEN [err |-> Error(ErrKillProcess, killErr), sent |-> {}]
  ELSE [err |-> NoErr, sent |-> {ppid}]

\* ------------------------------------------------------------ Hupd.Start
\* Start(fromRestart) run in a process whose os.Getppid() is ppid, where
\* unix.Kill(ppid, SIGTERM) returns killErr.  sent is the set of processes
\* that receive a SIGTERM.
Start(fromRestart, ppid, killErr) ==
  IF ~fromRestart THEN [err |-> NoErr, sent |-> {}]
  ELSE IF killErr # "nil" THEN [err |-> Error(ErrKillProcess, killErr), sent |-> {}]
  ELSE [err |-> NoErr, sent |-> {ppid}]

\* ------------------------------------------------ the Process collaborator
\* What BeginRestart(&cmd) may leave behind: it gets a pointer to the Cmd and
\* may configure it (attach files) or rewrite any exported field of it.
BeginRestartCmds(c) ==
  {c, [c EXCEPT !.Extra = 1], [c EXCEPT !.Args = <<c.Path>>]}

\* Mutant of TermArrives: sig is an unbuffered channel, so a signal is
\* dropped unless the select is already parked on it.
TermArrivesUnbuffered ==
  IF ~subscribed
    THEN UNCHANGED <<pc, sigbuf, chosen, terms>>
    ELSE /\ termSeen' = termSeen + 1
         /\ termAfterSpawn' = (termAfterSpawn \/ spawnRes = "nil")
         /\ termInTime' = (termInTime \/ ~timerFired)
         /\ IF pc = "parked"
              THEN /\ pc' = "kill"
                   /\ chosen' = "sig"
                   /\ UNCHANGED sigbuf
              ELSE UNCHANGED <<pc, sigbuf, chosen>>

\* --------------------------------------------------------------- signals
\* A SIGTERM reaches the old process.  With the subscription in force the
\* runtime does a non-blocking send on sig: a receiver parked in the select
\* takes it at once, otherwise it is buffered when the one slot is free and
\* dropped when it is not.  Without the subscription Restart never sees it.
TermArrives ==
  IF ~subscribed
    THEN UNCHANGED <<pc, sigbuf, chosen, terms>>
    ELSE /\ termSeen' = termSeen + 1
         /\ termAfterSpawn' = (termAfterSpawn \/ spawnRes = "nil")
         /\ termInTime' = (termInTime \/ ~timerFired)
         /\ IF pc = "parked"
              THEN /\ pc' = "kill"
                   /\ chosen' = "sig"
                   /\ UNCHANGED sigbuf
              ELSE /\ sigbuf' = IF sigbuf = 0 THEN 1 ELSE sigbuf
                   /\ UNCHANGED <<pc, chosen>>

\* ---------------------------------------------------------- Hupd.Restart
ProgramInit ==
  /\ osArgs \in ArgVectors
  /\ hasProcess \in BOOLEAN
  /\ RestartArg \in RestartArgs
  /\ Timeout \in Timeouts
  /\ pc = "idle"
  /\ cmd = NoCmd
  /\ built = NoCmd
  /\ err = NoErr
  /\ subscribed = FALSE
  /\ sigbuf = 0
  /\ timerArmed = FALSE
  /\ timerFired = FALSE
  /\ chosen = "none"
  /\ calls = 0
  /\ killCount = 0
  /\ killed = FALSE
  /\ beginRes = "notcalled"
  /\ spawnRes = "notcalled"
  /\ subsMade = 0
  /\ termSeen = 0
  /\ termAfterSpawn = FALSE
  /\ termInTime = FALSE
  /\ child = [i \in 1..MaxCalls |-> "none"]
  /\ stray = 0
  /\ startRes = [i \in 1..MaxCalls |-> <<>>]
  /\ beginCalls = 0
  /\ spawnCalls = 0
  /\ started = NoCmd
  /\ npc = "idle"
  /\ hupSub = FALSE
  /\ hupbuf = 0
  /\ hupSeen = 0
  /\ listenCalls = 0
  /\ nerr = NoErr

Init ==
  /\ ProgramInit
  /\ errIn = NoErr
  /\ rendered = "unset"

\* ------------------------------------------------------------ Error.Error
\* An error value handed to Error(): <<code, inner>> is an *Error, NilError
\* the nil *Error; an inner is <<>> (nil), <<text>> (an error of another
\* type, Error() = text), or again an *Error.
NilError == <<"nil", "*Error", 0>>
RenderCodes == -1 .. MaxCode
InnerTexts == {"", "EPERM"}
PlainErrors == {<<t>> : t \in InnerTexts}
LeafErrors == {<<c, i>> : c \in RenderCodes, i \in {<<>>} \cup PlainErrors}
Inners == {<<>>, NilError} \cup PlainErrors \cup LeafErrors
ErrorValues == {NilError} \cup {<<c, i>> : c \in RenderCodes, i \in Inners}

errMessages ==
  [c \in {ErrTimeout, ErrNewProcess, ErrKillProcess, ErrRestart, ErrNoProcess} |->
     CASE c = ErrTimeout     -> "huprt: process restart timed out"
       [] c = ErrNewProcess  -> "huprt: error starting new process"
       [] c = ErrKillProcess -> "huprt: error killing parent process"
       [] c = ErrRestart     -> "huprt: restart error"
       [] c = ErrNoProcess   -> "huprt: Hupd.Process is nil"]

RECURSIVE ErrorString(_)

\* Mutant of ErrorString: an inner error whose text is empty is not appended.
ErrorStringSkipsEmpty(e) ==
  IF e = NilError THEN "huprt: no error"
  ELSE LET msg == IF e[1] \in DOMAIN errMessages
                    THEN errMessages[e[1]] ELSE "huprt: unknown error"
           txt == IF e[2] = <<>> THEN ""
                  ELSE IF Len(e[2]) = 1 THEN e[2][1] ELSE ErrorString(e[2])
       IN IF txt # "" THEN msg \o ": " \o txt ELSE msg

\* Mutant of ErrorString: a code outside the table renders as the empty text.
ErrorStringNoFallback(e) ==
  IF e = NilError THEN "huprt: no error"
  ELSE LET msg == IF e[1] \in DOMAIN errMessages THEN errMessages[e[1]] ELSE ""
       IN IF e[2] # <<>>
            THEN msg \o ": " \o (IF Len(e[2]) = 1 THEN e[2][1] ELSE ErrorString(e[2]))
            ELSE msg

ErrorString(e) ==
  IF e = NilError THEN "huprt: no error"
  ELSE LET msg == IF e[1] \in DOMAIN errMessages
                    THEN errMessages[e[1]] ELSE "huprt: unknown error"
       IN IF e[2] # <<>>
            THEN msg \o ": " \o (IF Len(e[2]) = 1 THEN e[2][1] ELSE ErrorString(e[2]))
            ELSE msg

ErrorInit ==
  /\ ProgramInit
  /\ errIn \in ErrorValues
  /\ rendered = "unset"

\* One call of errIn.Error().
RenderError ==
  /\ rendered = "unset"
  /\ rendered' = ErrorString(errIn)
  /\ UNCHANGED <<config, built, listener, startRes, spawning, pc, cmd, err, subscribed,
                 sigbuf, timerArmed, timerFired, chosen, calls, killCount, killed,
                 beginRes, spawnRes, subsMade, terms, child, stray, errIn>>

ErrorNext == RenderError

ErrorSpec == ErrorInit /\ [][ErrorNext]_vars

\* Mutant of RestartEntry: the nil check is missing.
RestartEntryNoNilCheck ==
  /\ pc \in {"idle", "done"}
  /\ npc = "idle"
  /\ ~killed
  /\ calls < MaxCalls
  /\ calls' = calls + 1
  /\ killCount' = 0
  /\ beginRes' = "notcalled"
  /\ spawnRes' = "notcalled"
  /\ subsMade' = 0
  /\ spawnCalls' = 0
  /\ started' = NoCmd
  /\ termSeen' = 0
  /\ termAfterSpawn' = FALSE
  /\ termInTime' = FALSE
  /\ chosen' = "none"
  /\ timerArmed' = FALSE
  /\ timerFired' = FALSE
  /\ pc' = "begin"
  /\ err' = NoErr
  /\ cmd' = restartCmd(EffectiveArg(RestartArg), osArgs)
  /\ built' = cmd'
  /\ beginCalls' = 1
  /\ UNCHANGED <<config, listener, render, startRes, subscribed, sigbuf, killed, child, stray>>

\* Restart is entered: the nil check, the default marker and restartCmd.
\* With a Process it goes on to call BeginRestart(&cmd).
EnterRestart ==
  /\ pc \in {"idle", "done"}
  /\ ~killed
  /\ calls < MaxCalls
  /\ calls' = calls + 1
  /\ killCount' = 0
  /\ beginRes' = "notcalled"
  /\ spawnRes' = "notcalled"
  /\ subsMade' = 0
  /\ spawnCalls' = 0
  /\ started' = NoCmd
  /\ termSeen' = 0
  /\ termAfterSpawn' = FALSE
  /\ termInTime' = FALSE
  /\ chosen' = "none"
  /\ timerArmed' = FALSE
  /\ timerFired' = FALSE
  /\ IF ~hasProcess
       THEN /\ pc' = "done"
            /\ err' = Error(ErrNoProcess, "nil")
            /\ beginCalls' = 0
            /\ cmd' = NoCmd
            /\ built' = NoCmd
       ELSE /\ pc' = "begin"
            /\ err' = NoErr
            /\ cmd' = restartCmd(EffectiveArg(RestartArg), osArgs)
            /\ built' = cmd'
            /\ beginCalls' = 1
  /\ UNCHANGED <<config, render, startRes, subscribed, sigbuf, killed, child, stray>>

\* Mutant of BeginRestartReturns: BeginRestart's error is ignored.

\* The program calls Restart itself (no NotifyRestart is running).
RestartEntry ==
  /\ npc = "idle"
  /\ EnterRestart
  /\ UNCHANGED listener

BeginRestartReturnsIgnoresError ==
  /\ pc = "begin"
  /\ \E e \in BeginErrors, c \in BeginRestartCmds(cmd) :
       /\ beginRes' = e
       /\ pc' = "notify"
       /\ cmd' = c
       /\ UNCHANGED err
  /\ UNCHANGED <<config, built, listener, render, startRes, spawning, subscribed, sigbuf, timerArmed, timerFired, chosen, calls,
                 killCount, killed, spawnRes, subsMade, terms, child, stray>>

\* h.Process.BeginRestart(&cmd) returns.
BeginRestartReturns ==
  /\ pc = "begin"
  /\ \E e \in BeginErrors, c \in BeginRestartCmds(cmd) :
       /\ beginRes' = e
       /\ IF e # "nil"
            THEN /\ pc' = "done"
                 /\ err' = Error(ErrRestart, e)
                 /\ cmd' = NoCmd
            ELSE /\ pc' = "notify"
                 /\ cmd' = c
                 /\ UNCHANGED err
  /\ UNCHANGED <<config, built, listener, render, startRes, spawning, subscribed, sigbuf, timerArmed, timerFired, chosen, calls,
                 killCount, killed, spawnRes, subsMade, terms, child, stray>>

\* Mutant of Notify: BeginRestart was given a copy of the Cmd, so the Cmd
\* that goes on to cmd.Start() is the one restartCmd built.
NotifyWithBuiltCmd ==
  /\ pc = "notify"
  /\ subscribed' = TRUE
  /\ sigbuf' = 0
  /\ subsMade' = subsMade + 1
  /\ pc' = "start"
  /\ cmd' = built
  /\ UNCHANGED <<config, built, listener, render, startRes, spawning, err, timerArmed,
                 timerFired, chosen, calls, killCount, killed, beginRes, spawnRes, terms,
                 child, stray>>

\* sig := make(chan os.Signal, 1); signal.Notify(sig, unix.SIGTERM); defer Stop
Notify ==
  /\ pc = "notify"
  /\ subscribed' = TRUE
  /\ sigbuf' = 0
  /\ subsMade' = subsMade + 1
  /\ pc' = "start"
  /\ UNCHANGED <<config, built, listener, render, startRes, spawning, cmd, err, timerArmed, timerFired, chosen, calls, killCount,
                 killed, beginRes, spawnRes, terms, child, stray>>

\* Mutant of CmdStart: the spawn error is returned under the Restart code.
CmdStartWrongCode ==
  /\ pc = "start"
  /\ \E e \in StartErrors :
       /\ spawnRes' = e
       /\ spawnCalls' = spawnCalls + 1
       /\ started' = IF e = "nil" THEN cmd ELSE NoCmd
       /\ IF e # "nil"
            THEN /\ pc' = "done"
                 /\ err' = Error(ErrRestart, e)
                 /\ subscribed' = FALSE
                 /\ UNCHANGED child
            ELSE /\ pc' = "arm"
                 /\ child' = [child EXCEPT ![calls] = "spawned"]
                 /\ UNCHANGED <<err, subscribed>>
  /\ cmd' = NoCmd
  /\ UNCHANGED <<config, built, listener, render, startRes, beginCalls, sigbuf, timerArmed, timerFired, chosen, calls, killCount,
                 killed, beginRes, subsMade, terms, stray>>

\* Mutant of CmdStart: signal.Stop is not deferred, so the error return
\* leaves the subscription registered.
CmdStartLeaksSubscription ==
  /\ pc = "start"
  /\ \E e \in StartErrors :
       /\ spawnRes' = e
       /\ spawnCalls' = spawnCalls + 1
       /\ started' = IF e = "nil" THEN cmd ELSE NoCmd
       /\ IF e # "nil"
            THEN /\ pc' = "done"
                 /\ err' = Error(ErrNewProcess, e)
                 /\ UNCHANGED <<child, subscribed>>
            ELSE /\ pc' = "arm"
                 /\ child' = [child EXCEPT ![calls] = "spawned"]
                 /\ UNCHANGED <<err, subscribed>>
  /\ cmd' = NoCmd
  /\ UNCHANGED <<config, built, listener, render, startRes, beginCalls, sigbuf, timerArmed, timerFired, chosen, calls, killCount,
                 killed, beginRes, subsMade, terms, stray>>

\* cmd.Start() returns: on an error Restart returns NewProcess (and the
\* deferred signal.Stop runs), otherwise the replacement is running with the
\* Cmd's arguments, and the Cmd is not used again.
CmdStart ==
  /\ pc = "start"
  /\ \E e \in StartErrors :
       /\ spawnRes' = e
       /\ spawnCalls' = spawnCalls + 1
       /\ started' = IF e = "nil" THEN cmd ELSE NoCmd
       /\ IF e # "nil"
            THEN /\ pc' = "done"
                 /\ err' = Error(ErrNewProcess, e)
                 /\ subscribed' = FALSE
                 /\ UNCHANGED child
            ELSE /\ pc' = "arm"
                 /\ child' = [child EXCEPT ![calls] = "spawned"]
                 /\ UNCHANGED <<err, subscribed>>
  /\ cmd' = NoCmd
  /\ UNCHANGED <<config, built, listener, render, startRes, beginCalls, sigbuf, timerArmed, timerFired, chosen, calls, killCount,
                 killed, beginRes, subsMade, terms, stray>>

\* Mutant of ArmTimer: the timeout channel is left nil.
ArmTimerNever ==
  /\ pc = "arm"
  /\ timerArmed' = FALSE
  /\ pc' = "select"
  /\ started' = NoCmd
  /\ UNCHANGED <<config, built, listener, render, startRes, beginCalls, spawnCalls, cmd, err, subscribed, sigbuf, timerFired, chosen, calls,
                 killCount, killed, beginRes, spawnRes, subsMade, terms, child, stray>>

\* Mutant of ArmTimer: the test is Timeout != 0, so a negative Timeout arms
\* a timer too.
ArmTimerNonZero ==
  /\ pc = "arm"
  /\ timerArmed' = (Timeout # 0)
  /\ pc' = "select"
  /\ started' = NoCmd
  /\ UNCHANGED <<config, built, listener, render, startRes, beginCalls, spawnCalls, cmd, err, subscribed, sigbuf, timerFired, chosen, calls,
                 killCount, killed, beginRes, spawnRes, subsMade, terms, child, stray>>

\* var timeout <-chan time.Time; if h.Timeout > 0 { timeout = time.After(..) }
ArmTimer ==
  /\ pc = "arm"
  /\ timerArmed' = (Timeout > 0)
  /\ pc' = "select"
  /\ started' = NoCmd
  /\ UNCHANGED <<config, built, listener, render, startRes, beginCalls, spawnCalls, cmd, err, subscribed, sigbuf, timerFired, chosen, calls,
                 killCount, killed, beginRes, spawnRes, subsMade, terms, child, stray>>

\* The cases of the select that are ready: a buffered signal, an expired
\* timer.  A nil timeout channel is never ready.
Ready == (IF sigbuf > 0 THEN {"sig"} ELSE {}) \cup
         (IF timerArmed /\ timerFired THEN {"timeout"} ELSE {})

\* Mutant of SelectPoll: a signal buffered before the select is reached is
\* not looked at; the goroutine parks.
SelectPollBlocks ==
  /\ pc = "select"
  /\ pc' = "parked"
  /\ UNCHANGED <<config, built, listener, render, startRes, spawning, cmd, err, subscribed, sigbuf, chosen, timerArmed,
                 timerFired, calls, killCount, killed, beginRes, spawnRes, subsMade,
                 terms, child, stray>>

\* The goroutine reaches the select: it takes one of the ready cases, any of
\* them when both are ready, and parks when none is.
SelectPoll ==
  /\ pc = "select"
  /\ IF Ready = {}
       THEN /\ pc' = "parked"
            /\ UNCHANGED <<chosen, sigbuf>>
       ELSE \E c \in Ready :
              /\ chosen' = c
              /\ pc' = IF c = "sig" THEN "kill" ELSE "timedout"
              /\ sigbuf' = IF c = "sig" THEN 0 ELSE sigbuf
  /\ UNCHANGED <<config, built, listener, render, startRes, spawning, cmd, err, subscribed, timerArmed, timerFired, calls, killCount,
                 killed, beginRes, spawnRes, subsMade, terms, child, stray>>

\* Mutant of TimerExpire: the timeout case runs Kill.
TimerExpireKills ==
  /\ pc \in {"select", "parked"}
  /\ timerArmed /\ ~timerFired
  /\ timerFired' = TRUE
  /\ IF pc = "parked" THEN pc' = "kill" /\ chosen' = "timeout"
                      ELSE UNCHANGED <<pc, chosen>>
  /\ UNCHANGED <<config, built, listener, render, startRes, spawning, cmd, err, subscribed, sigbuf, timerArmed, calls, killCount,
                 killed, beginRes, spawnRes, subsMade, terms, child, stray>>

\* The timer of time.After expires; a goroutine parked in the select takes
\* the timeout case at once.  The timer runs from ArmTimer on, and nothing
\* reads its channel once the select has taken a case.
TimerExpire ==
  /\ pc \in {"select", "parked"}
  /\ timerArmed /\ ~timerFired
  /\ timerFired' = TRUE
  /\ IF pc = "parked" THEN pc' = "timedout" /\ chosen' = "timeout"
                      ELSE UNCHANGED <<pc, chosen>>
  /\ UNCHANGED <<config, built, listener, render, startRes, spawning, cmd, err, subscribed, sigbuf, timerArmed, calls, killCount,
                 killed, beginRes, spawnRes, subsMade, terms, child, stray>>

\* Mutant of KillCall: the signal case does not call Kill.
KillCallSkipped ==
  /\ pc = "kill"
  /\ pc' = "ret"
  /\ UNCHANGED <<config, built, listener, render, startRes, spawning, cmd, err, subscribed, sigbuf, timerArmed, timerFired, chosen,
                 calls, killCount, killed, beginRes, spawnRes, subsMade, terms, child, stray>>

\* case <-sig: h.Process.Kill()
KillCall ==
  /\ pc = "kill"
  /\ killCount' = killCount + 1
  /\ killed' = TRUE
  /\ pc' = "ret"
  /\ UNCHANGED <<config, built, listener, render, startRes, spawning, cmd, err, subscribed, sigbuf, timerArmed, timerFired, chosen,
                 calls, beginRes, spawnRes, subsMade, terms, child, stray>>

\* Mutant of ReturnNil: signal.Stop is not run on the successful return.
ReturnNilLeaksSubscription ==
  /\ pc = "ret"
  /\ pc' = "done"
  /\ err' = NoErr
  /\ UNCHANGED <<config, built, listener, render, startRes, spawning, cmd, subscribed, sigbuf, timerArmed, timerFired, chosen, calls,
                 killCount, killed, beginRes, spawnRes, subsMade, terms, child, stray>>

\* return nil, after Kill returned; the deferred signal.Stop(sig) runs.
ReturnNil ==
  /\ pc = "ret"
  /\ pc' = "done"
  /\ err' = NoErr
  /\ subscribed' = FALSE
  /\ UNCHANGED <<config, built, listener, render, startRes, spawning, cmd, sigbuf, timerArmed, timerFired, chosen, calls, killCount,
                 killed, beginRes, spawnRes, subsMade, terms, child, stray>>

\* Mutant of ReturnTimeout: Kill is called on the timeout path too.
ReturnTimeoutKills ==
  /\ pc = "timedout"
  /\ pc' = "done"
  /\ err' = Error(ErrTimeout, "nil")
  /\ subscribed' = FALSE
  /\ killCount' = killCount + 1
  /\ killed' = TRUE
  /\ UNCHANGED <<config, built, listener, render, startRes, spawning, cmd, sigbuf, timerArmed, timerFired, chosen, calls,
                 beginRes, spawnRes, subsMade, terms, child, stray>>

\* case <-timeout: return &Error{ErrTimeout, nil}; signal.Stop(sig) runs.
ReturnTimeout ==
  /\ pc = "timedout"
  /\ pc' = "done"
  /\ err' = Error(ErrTimeout, "nil")
  /\ subscribed' = FALSE
  /\ UNCHANGED <<config, built, listener, render, startRes, spawning, cmd, sigbuf, timerArmed, timerFired, chosen, calls, killCount,
                 killed, beginRes, spawnRes, subsMade, terms, child, stray>>

\* ------------------------------------------------------- the environment
\* The parent of a replacement as os.Getppid() reports it: the old process
\* while it lives, init once it is gone.
Getppid == IF killed THEN "init" ELSE "old"

\* The replacement spawned by invocation i calls Start(fromRestart).
ChildStart(i) ==
  /\ child[i] = "spawned"
  /\ \E fromRestart \in BOOLEAN, ke \in KillErrors :
       LET r == Start(fromRestart, Getppid, ke) IN
         /\ startRes' = [startRes EXCEPT ![i] =
                           Append(@, [from |-> fromRestart, err |-> r.err, sent |-> r.sent])]
         /\ child' = [child EXCEPT ![i] =
                        IF ~fromRestart THEN "plain"
                        ELSE IF r.err # NoErr THEN "failed"
                        ELSE IF "old" \in r.sent THEN "ready" ELSE "lost"]
         /\ IF "old" \in r.sent
              THEN TermArrives
              ELSE UNCHANGED <<pc, sigbuf, chosen, terms>>
  /\ UNCHANGED <<config, built, listener, render, spawning, cmd, err, subscribed, timerArmed, timerFired, calls, killCount,
                 killed, beginRes, spawnRes, subsMade, stray>>

\* Another sender (an operator, a supervisor) sends SIGTERM to the old process.
StrayTerm ==
  /\ stray < MaxStray
  /\ ~killed
  /\ stray' = stray + 1
  /\ TermArrives
  /\ UNCHANGED <<config, built, listener, render, startRes, spawning, cmd, err, subscribed, timerArmed, timerFired, calls, killCount,
                 killed, beginRes, spawnRes, subsMade, child>>

\* ------------------------------------------------------ Hupd.NotifyRestart
\* hup := make(chan os.Signal, 1); signal.Notify(hup, unix.SIGHUP); defer Stop
NotifyRestartCall ==
  /\ npc \in {"idle", "returned"}
  /\ pc \in {"idle", "done"}
  /\ ~killed
  /\ calls < MaxCalls
  /\ npc' = "waiting"
  /\ hupSub' = TRUE
  /\ hupbuf' = 0
  /\ hupSeen' = 0
  /\ listenCalls' = 0
  /\ UNCHANGED <<config, built, render, startRes, spawning, pc, cmd, err, subscribed,
                 sigbuf, timerArmed, timerFired, chosen, calls, killCount, killed,
                 beginRes, spawnRes, subsMade, terms, child, stray, nerr>>

\* A SIGHUP reaches the old process: with the subscription in force it is
\* buffered in hup when the one slot is free and dropped when it is not;
\* without the subscription NotifyRestart never sees it.
HupArrives ==
  /\ ~killed
  /\ hupSeen < MaxHup
  /\ IF ~hupSub
       THEN UNCHANGED <<hupbuf, hupSeen>>
       ELSE /\ hupSeen' = hupSeen + 1
            /\ hupbuf' = IF hupbuf = 0 THEN 1 ELSE hupbuf
  /\ UNCHANGED <<config, built, render, startRes, spawning, pc, cmd, err, subscribed,
                 sigbuf, timerArmed, timerFired, chosen, calls, killCount, killed,
                 beginRes, spawnRes, subsMade, terms, child, stray, npc, hupSub,
                 listenCalls, nerr>>

\* Mutant of ListenerReceive: Restart is called without waiting on hup.
ListenerReceiveNoWait ==
  /\ npc = "waiting"
  /\ npc' = "restart"
  /\ listenCalls' = listenCalls + 1
  /\ EnterRestart
  /\ UNCHANGED <<hupSub, hupbuf, hupSeen, nerr>>

\* <-hup yields a signal and NotifyRestart calls h.Restart().
ListenerReceive ==
  /\ npc = "waiting"
  /\ hupbuf > 0
  /\ hupbuf' = hupbuf - 1
  /\ npc' = "restart"
  /\ listenCalls' = listenCalls + 1
  /\ EnterRestart
  /\ UNCHANGED <<hupSub, hupSeen, nerr>>

\* Mutant of ListenerReturn: NotifyRestart loops, waiting on hup again.
ListenerReturnLoops ==
  /\ npc = "restart"
  /\ pc = "done"
  /\ npc' = "waiting"
  /\ nerr' = err
  /\ UNCHANGED <<config, built, render, startRes, spawning, pc, cmd, err, subscribed,
                 sigbuf, timerArmed, timerFired, chosen, calls, killCount, killed,
                 beginRes, spawnRes, subsMade, terms, child, stray, hupSub, hupbuf,
                 hupSeen, listenCalls>>

\* Restart has returned: NotifyRestart returns its result, and the deferred
\* signal.Stop(hup) runs.
ListenerReturn ==
  /\ npc = "restart"
  /\ pc = "done"
  /\ npc' = "returned"
  /\ nerr' = err
  /\ hupSub' = FALSE
  /\ UNCHANGED <<config, built, render, startRes, spawning, pc, cmd, err, subscribed,
                 sigbuf, timerArmed, timerFired, chosen, calls, killCount, killed,
                 beginRes, spawnRes, subsMade, terms, child, stray, hupbuf, hupSeen,
                 listenCalls>>

Next ==
  \/ RestartEntry
  \/ BeginRestartReturns
  \/ Notify
  \/ CmdStart
  \/ ArmTimer
  \/ SelectPoll
  \/ TimerExpire
  \/ KillCall
  \/ ReturnNil
  \/ ReturnTimeout
  \/ \E i \in 1..MaxCalls : ChildStart(i)
  \/ StrayTerm

Spec == Init /\ [][Next]_vars

\* Restart run only by NotifyRestart, on a SIGHUP.
ListenerNext ==
  \/ NotifyRestartCall
  \/ HupArrives
  \/ ListenerReceive
  \/ ListenerReturn
  \/ BeginRestartReturns
  \/ Notify
  \/ CmdStart
  \/ ArmTimer
  \/ SelectPoll
  \/ TimerExpire
  \/ KillCall
  \/ ReturnNil
  \/ ReturnTimeout
  \/ \E i \in 1..MaxCalls : ChildStart(i)
  \/ StrayTerm

ListenerSpec == Init /\ [][ListenerNext]_vars

\* The goroutine running Restart is scheduled, and the runtime's timer fires.
FairSpec ==
  /\ Spec
  /\ WF_vars(ArmTimer)
  /\ WF_vars(SelectPoll)
  /\ WF_vars(TimerExpire)
  /\ WF_vars(KillCall)
  /\ WF_vars(ReturnNil)
  /\ WF_vars(ReturnTimeout)

\* ================================================================ claims
Code(e) == IF e = NoErr THEN -1 ELSE e[1]
Inner(e) == IF e = NoErr THEN "nil" ELSE e[2]
Marker == IF RestartArg = "" THEN "-restart" ELSE RestartArg
Returned == pc = "done" /\ calls > 0

\* args has argv[0] at index 0 and the marker at index 1; with no user
\* arguments it is exactly [argv[0], marker].
MarkerAtOne(args) ==
  /\ Len(args) >= 2
  /\ args[1] = osArgs[1]
  /\ args[2] = Marker
  /\ (Len(osArgs) = 1 => args = <<osArgs[1], Marker>>)

\* C1: the argument list restartCmd(m) builds for a non-empty marker m holds
\* m at index 1 without duplicating it: it is argv itself when argv[1] is
\* already m, and [argv[0], m] followed by argv[1..] otherwise.
C1_MarkerNotDuplicated ==
  pc = "begin" =>
    cmd.Args = IF Len(osArgs) > 1 /\ osArgs[2] = Marker
                 THEN osArgs
                 ELSE <<osArgs[1], Marker>> \o Tail(osArgs)

\* C2 as stated: the Cmd handed to BeginRestart and the Cmd handed to
\* cmd.Start() both have argv[0] at index 0 and the marker at index 1.
C2_MarkerAtBeginAndSpawn ==
  pc \in {"begin", "start"} => MarkerAtOne(cmd.Args)

\* C2: the Cmd handed to BeginRestart has argv[0] at index 0 and the
\* effective marker ("-restart" for an empty RestartArg) at index 1, and is
\* exactly [argv[0], marker] with no user arguments; the Cmd handed to
\* cmd.Start() has the same whenever BeginRestart left the argument list as
\* it was built.
C2_MarkerAtBeginAndUnrewrittenSpawn ==
  /\ pc = "begin" => MarkerAtOne(cmd.Args)
  /\ (pc \in {"notify", "start"} /\ cmd.Args = built.Args) => MarkerAtOne(cmd.Args)

C2_Witness ==
  /\ pc = "start"
  /\ cmd.Args = built.Args
  /\ cmd.Extra = 1
  /\ RestartArg = ""
  /\ Len(osArgs) > 1

\* C3: Kill() is called at most once in a Restart invocation, only when the
\* select took the signal case, and never in an invocation that returns an
\* error, however many SIGTERMs are delivered during the handshake.
C3_KillAtMostOnceOnSignalPath ==
  /\ killCount <= 1
  /\ killCount = 1 => chosen = "sig"
  /\ (Returned /\ err # NoErr) => killCount = 0
  /\ pc \in {"begin", "notify", "start", "arm", "select", "parked", "kill", "timedout"}
       => killCount = 0

C3_Witness ==
  /\ Returned
  /\ killCount = 1
  /\ termSeen >= 2
  /\ err = NoErr

\* C4: Restart returns the code Restart, with BeginRestart's error as its
\* inner error, exactly when BeginRestart returned an error; then cmd.Start
\* was not called, signal.Notify was not called and Kill was not called.
C4_RestartErrorIffBeginRestartFails ==
  Returned =>
    /\ (Code(err) = ErrRestart) <=> (beginRes \notin {"notcalled", "nil"})
    /\ Code(err) = ErrRestart =>
         /\ err = Error(ErrRestart, beginRes)
         /\ spawnRes = "notcalled"
         /\ subsMade = 0
         /\ ~subscribed
         /\ killCount = 0

C4_Witness ==
  /\ Returned
  /\ err = Error(ErrRestart, "EBUSY")
  /\ beginRes = "EBUSY"

\* C5: the SIGTERM subscription is registered before cmd.Start() is called
\* and stays registered through the wait, so the signal the replacement
\* sends at any moment after the spawn, also before the select is reached,
\* is in the one-slot buffer when the select runs, and the select takes the
\* signal case (unless the timeout case is ready as well).
C5_Retained ==
  /\ spawnRes # "notcalled" => subsMade = 1
  /\ pc \in {"start", "arm", "select", "parked"} => subscribed
  /\ (calls > 0 /\ child[IF calls > 0 THEN calls ELSE 1] = "ready"
        /\ pc \in {"arm", "select", "parked"})
       => (sigbuf = 1 /\ pc # "parked")
  /\ (pc = "select" /\ termSeen > 0) => "sig" \in Ready

C6_SignalAfterSpawnCompletes ==
  (Timeout = 0 /\ hasProcess /\ beginRes = "nil" /\ spawnRes = "nil" /\ termAfterSpawn)
    ~> (Returned /\ err = NoErr /\ killCount = 1)

C6_Witness ==
  /\ Timeout = 0
  /\ termAfterSpawn
  /\ Returned
  /\ err = NoErr
  /\ killCount = 1

\* C7 as stated: with Timeout > 0 and a successful spawn, when no SIGTERM is
\* delivered before the timer expires Restart returns Timeout and Kill() is
\* not called.
C7_NoSignalWithinTimeoutTimesOut ==
  (Returned /\ Timeout > 0 /\ spawnRes = "nil" /\ ~termInTime)
    => (err = Error(ErrTimeout, "nil") /\ killCount = 0)

\* C7: with Timeout > 0, once BeginRestart and cmd.Start() have succeeded,
\* Restart eventually returns unless a SIGTERM is delivered; when none is
\* delivered before it returns, it returns Timeout with a nil inner error,
\* Kill() is not called, and both processes are left as they are.
C7_NoSignalTimesOut ==
  /\ [](( Returned /\ Timeout > 0 /\ spawnRes = "nil" /\ termSeen = 0)
          => /\ err = Error(ErrTimeout, "nil")
             /\ killCount = 0
             /\ ~killed
             /\ child[IF calls > 0 THEN calls ELSE 1] # "none")
  /\ (Timeout > 0 /\ spawnRes = "nil") ~> (Returned \/ termSeen > 0)

C7_Witness ==
  /\ Returned
  /\ Timeout > 0
  /\ spawnRes = "nil"
  /\ termSeen = 0
  /\ err = Error(ErrTimeout, "nil")

\* C8: Restart returns the code NewProcess, with cmd.Start's error as its
\* inner error, exactly when cmd.Start() fails after BeginRestart succeeded;
\* then BeginRestart has returned, the subscription has been released, the
\* select was never reached and Kill was not called.
C8_NewProcessIffSpawnFails ==
  Returned =>
    /\ (Code(err) = ErrNewProcess) <=> (beginRes = "nil" /\ spawnRes \notin {"notcalled", "nil"})
    /\ Code(err) = ErrNewProcess =>
         /\ err = Error(ErrNewProcess, spawnRes)
         /\ subsMade = 1
         /\ ~subscribed
         /\ chosen = "none"
         /\ ~timerArmed
         /\ killCount = 0

C8_Witness ==
  /\ Returned
  /\ err = Error(ErrNewProcess, "ENOENT")
  /\ beginRes = "nil"

\* C9: Restart returns the code NoProcess, with a nil inner error, exactly
\* when h.Process is nil, whatever RestartArg and Timeout are; then
\* BeginRestart is not called, nothing is subscribed or spawned and Kill is
\* not called.
C9_NoProcessIffNil ==
  /\ Returned => ((Code(err) = ErrNoProcess) <=> ~hasProcess)
  /\ (calls > 0 /\ ~hasProcess) =>
       /\ pc = "done"
       /\ err = Error(ErrNoProcess, "nil")
       /\ beginRes = "notcalled"
       /\ spawnRes = "notcalled"
       /\ subsMade = 0
       /\ ~subscribed
       /\ killCount = 0
       /\ cmd = NoCmd
       /\ \A i \in 1..MaxCalls : child[i] = "none"

C9_Witness ==
  /\ Returned
  /\ ~hasProcess
  /\ RestartArg # ""
  /\ Timeout > 0
  /\ err = Error(ErrNoProcess, "nil")

\* C10 as stated: Kill() is called only after the replacement spawned by
\* this invocation has executed Start(true), whatever other SIGTERMs reach
\* the old process.
C10_KillOnlyAfterOwnReplacementReady ==
  (pc \in {"kill", "ret"} \/ killCount > 0)
    => child[IF calls > 0 THEN calls ELSE 1] \in {"ready", "failed", "lost"}

\* C10: Kill() is called only after cmd.Start() has succeeded and a SIGTERM
\* has been delivered to the subscription this invocation registered; the
\* sender of that SIGTERM is not examined.
C10_KillOnlyAfterSpawnAndSignal ==
  (pc \in {"kill", "ret"} \/ killCount > 0)
    => (spawnRes = "nil" /\ termSeen > 0 /\ chosen = "sig")

C10_Witness ==
  /\ killCount = 1
  /\ child[IF calls > 0 THEN calls ELSE 1] = "spawned"
  /\ stray = 1

\* C11: the SIGTERM subscription Restart registers is released on every
\* return of Restart, so between invocations, and after any number of
\* them, none is registered.
C11_SubscriptionReleasedOnReturn ==
  /\ pc \in {"idle", "done"} => ~subscribed
  /\ subscribed => (subsMade = 1 /\ pc \in {"start", "arm", "select", "parked",
                                            "kill", "ret", "timedout"})

C11_Witness ==
  /\ calls = 2
  /\ Returned
  /\ subsMade = 1
  /\ err = NoErr
  /\ ~subscribed
  /\ \E i \in 1..MaxCalls : child[i] # "none" /\ i # calls

\* C16 as stated: with Timeout > 0, whenever a SIGTERM is delivered to the
\* subscription before the timer expires, Restart calls Kill() once and
\* returns nil, never Timeout.
C16_SignalInTimeCompletes ==
  (Returned /\ Timeout > 0 /\ spawnRes = "nil" /\ termInTime)
    => (err = NoErr /\ killCount = 1)

\* C16: with Timeout > 0, when a SIGTERM is delivered to the subscription
\* and the select takes its case before the timer expires, Restart calls
\* Kill() once and returns nil; the timeout case is taken only after the
\* timer has expired.
C16_SignalBeforeExpiryCompletes ==
  /\ (Returned /\ Timeout > 0 /\ spawnRes = "nil" /\ termInTime /\ ~timerFired)
       => (err = NoErr /\ killCount = 1)
  /\ chosen = "timeout" => (timerArmed /\ timerFired)

C16_Witness ==
  /\ Returned
  /\ Timeout > 0
  /\ termInTime
  /\ ~timerFired
  /\ err = NoErr
  /\ killCount = 1

\* C19: with Timeout <= 0 no timer is armed: Restart never returns Timeout,
\* and after a successful spawn it stays in the wait for as long as no
\* SIGTERM is delivered.
C19_NoTimerWithoutPositiveTimeout ==
  Timeout <= 0 =>
    /\ ~timerArmed /\ ~timerFired
    /\ pc # "timedout"
    /\ Returned => Code(err) # ErrTimeout
    /\ (spawnRes = "nil" /\ termSeen = 0) => pc \in {"arm", "select", "parked"}

C19_Witness ==
  /\ Timeout < 0
  /\ pc = "parked"
  /\ termSeen = 0
  /\ stray = 1

\* The Start calls made so far, as <<replacement, call>> pairs.
StartCallsOf(i) == {startRes[i][k] : k \in 1..Len(startRes[i])}
AllStartCalls == UNION {StartCallsOf(i) : i \in 1..MaxCalls}

\* C12: Start(false) returns nil, sends no signal and changes nothing;
\* Start(true) sends exactly one SIGTERM, to the parent process id, and
\* returns nil when it is delivered and KillProcess wrapping the OS error
\* when it is not; it never waits for the parent.
C12_StartResults ==
  /\ \A r \in AllStartCalls :
       /\ ~r.from => (r.err = NoErr /\ r.sent = {})
       /\ r.from => \/ (r.err = NoErr /\ Cardinality(r.sent) = 1
                          /\ r.sent \subseteq {"old", "init"})
                    \/ (Code(r.err) = ErrKillProcess /\ Inner(r.err) \in KillErrors \ {"nil"}
                          /\ r.sent = {})
  /\ \A i \in 1..MaxCalls : child[i] = "spawned" => ENABLED ChildStart(i)

C12_StartSendsOneSignal ==
  /\ []C12_StartResults
  /\ [][\A i \in 1..MaxCalls :
          startRes'[i] # startRes[i] =>
            LET r == startRes'[i][Len(startRes'[i])] IN
              /\ r.sent = {} => UNCHANGED <<pc, sigbuf, chosen, terms>>
              /\ ("old" \in r.sent /\ subscribed) => termSeen' = termSeen + 1
              /\ UNCHANGED <<config, cmd, err, subscribed, killed, calls, stray>>]_vars

C12_Witness ==
  \E i, j \in 1..MaxCalls :
    /\ startRes[i] = <<[from |-> FALSE, err |-> NoErr, sent |-> {}]>>
    /\ startRes[j] = <<[from |-> TRUE, err |-> Error(ErrKillProcess, "EPERM"), sent |-> {}]>>

\* C20: the SIGTERM of Start(true) goes to the process that spawned this
\* replacement, also when that process is no longer its parent by the time
\* Start is called.
C20_SignalGoesToSpawner ==
  \A r \in AllStartCalls : (r.from /\ r.err = NoErr) => r.sent = {"old"}

\* C18: in a Restart invocation with a Process, BeginRestart is called
\* exactly once and has returned before signal.Notify and before cmd.Start();
\* cmd.Start() is called at most once, on the Cmd that was passed to
\* BeginRestart, as BeginRestart left it.
C18_Order ==
  /\ beginCalls <= 1 /\ spawnCalls <= 1
  /\ (calls > 0 /\ hasProcess) => beginCalls = 1
  /\ (subsMade > 0 \/ spawnCalls > 0) => (beginCalls = 1 /\ beginRes = "nil")
  /\ pc = "begin" => (beginRes = "notcalled" /\ subsMade = 0 /\ spawnCalls = 0 /\ ~subscribed)
  /\ spawnCalls = 1 <=> spawnRes # "notcalled"

C18_BeginRestartOnceThenSpawn ==
  /\ []C18_Order
  /\ [][(pc = "begin" /\ pc' = "notify") => cmd' \in BeginRestartCmds(built)]_vars
  /\ [][pc = "notify" => cmd' = cmd]_vars
  /\ [][(pc = "start" /\ spawnRes' = "nil") => started' = cmd]_vars

C18_Witness ==
  /\ pc = "arm"
  /\ started # NoCmd
  /\ started # built
  /\ started.Extra = 1
  /\ beginCalls = 1
  /\ spawnCalls = 1

\* --------------------------------------------------------------------- C13
\* C13: NotifyRestart never calls Restart before a SIGHUP was delivered to
\* the subscription it made; while none has been delivered it stays blocked
\* on hup; one delivered signal is kept until it is received, so Restart can
\* be called; Restart is called once, and what NotifyRestart returns is
\* what that Restart returned.
C13_RestartOnlyOnHup ==
  /\ listenCalls <= 1
  /\ listenCalls = 1 => hupSeen >= 1
  /\ (hupSub /\ hupSeen = 0) =>
       (npc = "waiting" /\ listenCalls = 0 /\ ~ENABLED ListenerReceive)
  /\ (npc = "waiting" /\ hupSeen > 0) => ENABLED ListenerReceive
  /\ npc \in {"restart", "returned"} => listenCalls = 1
  /\ npc = "returned" => (pc = "done" /\ nerr = err)

C13_Witness ==
  /\ npc = "returned"
  /\ listenCalls = 1
  /\ hupSeen = 1
  /\ nerr = Error(ErrTimeout, "nil")

\* --------------------------------------------------------------------- C17
C17_Counts ==
  /\ listenCalls <= 1
  /\ beginCalls <= 1
  /\ spawnCalls <= 1
  /\ npc = "restart" => hupSub
  /\ npc = "waiting" => pc \in {"idle", "done"}

\* C17: one NotifyRestart runs at most one Restart, hence at most one
\* BeginRestart and one spawn; a SIGHUP that arrives while Restart runs (or
\* after it) starts no further Restart; no Restart starts while one is
\* running; and the hup subscription is released only once Restart returned.
C17_OneHandshakePerListen ==
  /\ []C17_Counts
  /\ [][npc = "restart" => calls' = calls]_vars
  /\ [][calls' # calls => pc \in {"idle", "done"}]_vars
  /\ [][(hupSub /\ ~hupSub') => (npc = "restart" /\ pc = "done")]_vars

C17_Witness ==
  /\ npc = "returned"
  /\ hupSeen = MaxHup
  /\ listenCalls = 1
  /\ spawnCalls = 1
  /\ ~hupSub

\* --------------------------------------------------------------------- C15
C15_FixedMessage(c) ==
  CASE c = 0 -> "huprt: process restart timed out"
    [] c = 1 -> "huprt: error starting new process"
    [] c = 2 -> "huprt: error killing parent process"
    [] c = 3 -> "huprt: restart error"
    [] c = 4 -> "huprt: Hupd.Process is nil"

\* C15: Error() of an Error renders the fixed message of a known code and
\* "huprt: unknown error" for any other code, followed by ": " and the
\* inner error's text when there is an inner error (even one whose text is
\* empty), and by nothing when there is none.
C15_ErrorRendering ==
  (rendered # "unset" /\ errIn # NilError) =>
    LET base == IF errIn[1] \in 0..4 THEN C15_FixedMessage(errIn[1])
                ELSE "huprt: unknown error"
        text == IF Len(errIn[2]) = 1 THEN errIn[2][1] ELSE ErrorString(errIn[2])
    IN  rendered = IF errIn[2] = <<>> THEN base ELSE base \o ": " \o text

C15_Witness ==
  /\ errIn = <<MaxCode, <<ErrRestart, <<"">>>>>>
  /\ rendered = "huprt: unknown error: huprt: restart error: "

\* --------------------------------------------------------------------- C14
C14_Codes == {ErrTimeout, ErrNewProcess, ErrKillProcess, ErrRestart, ErrNoProcess}

\* What Restart may return: nil, or one Error whose code says which step
\* failed and whose inner error is the error of that step.
C14_RestartResult(e) ==
  \/ e = NoErr
  \/ /\ Len(e) = 2
     /\ Code(e) \in C14_Codes \ {ErrKillProcess}
     /\ Code(e) = ErrRestart => (Inner(e) = beginRes /\ beginRes # "nil")
     /\ Code(e) = ErrNewProcess => (Inner(e) = spawnRes /\ spawnRes # "nil")

C14_StartResult(e) ==
  \/ e = NoErr
  \/ /\ Len(e) = 2
     /\ Code(e) = ErrKillProcess
     /\ Inner(e) \in KillErrors \ {"nil"}

C14_Results ==
  /\ Returned =>
       /\ C14_RestartResult(err)
       /\ Code(err) \in {ErrTimeout, ErrNoProcess} => Inner(err) = "nil"
  /\ \A r \in AllStartCalls : C14_StartResult(r.err)
  /\ npc = "returned" => (nerr = err /\ C14_RestartResult(nerr))

====
